---- MODULE Spec2Model ----
(***************************************************************************)
(* Query-and-aggregation core of the weather service: the two route        *)
(* handlers GET /api/measurements and GET /api/measurements/metrics of     *)
(* src/server/index.js, the earlier metrics handler that reduces the       *)
(* pushed raw values with calculateStdDev (src/unnamed/part_000), and the  *)
(* ingestion job that appends observations to the shared collection.       *)
(*                                                                         *)
(* Representation.                                                         *)
(*  - A query-string value is NONE (parameter absent) or a string; Chars   *)
(*    gives the characters of a string, which the regular expression and   *)
(*    the date parser work on.                                             *)
(*  - A JavaScript Date is [nan, day, ms]: day = days since 1970-01-01     *)
(*    (UTC), ms = milliseconds within that day; the time value is          *)
(*    day * msPerDay + ms.                                                 *)
(*  - Field values are fixed-point reals in tenths (215 is 21.5); the      *)
(*    numbers of a metrics response are in hundredths (816 is 8.16).       *)
(*    Arithmetic is exact (rationals), not IEEE double.                    *)
(***************************************************************************)
EXTENDS Integers, Sequences, FiniteSets, Bags, TLC

VARIABLES
    tz,          \* offset of the server's time zone from UTC, in minutes
    engine,      \* how Date.parse treats a day its month does not have
    store,       \* the Measurement collection, a bag of documents
    pc,          \* "idle", "awaiting" (the handler is at its await), "done"
    req,         \* the request being handled
    dateFilter,  \* the handler's dateFilter object
    resp,        \* the response sent for the request
    storeCalls,  \* store calls issued for the request
    responses,   \* responses sent for the request
    logged,      \* the error console.error received, "" when none
    scanned      \* the collection as the store call of the request read it

vars ==
    <<tz, engine, store, pc, req, dateFilter, resp, storeCalls, responses, logged, scanned>>

----------------------------------------------------------------------------
(* Bounds of the model *)

MaxStore == 3

MaxStoreValidate == 1

----------------------------------------------------------------------------
(* Strings *)

NONE == "<undefined>"

Str10(a, b, c, d, e, f, g, h, i, j) == <<a, b, c, d, e, f, g, h, i, j>>

(* The characters of the query-string values the model draws from *)
Chars(s) ==
    CASE s = "" -> << >>
      [] s = "2025-01-02" -> Str10("2", "0", "2", "5", "-", "0", "1", "-", "0", "2")
      [] s = "2025-01-03" -> Str10("2", "0", "2", "5", "-", "0", "1", "-", "0", "3")
      [] s = "2025-13-01" -> Str10("2", "0", "2", "5", "-", "1", "3", "-", "0", "1")
      [] s = "2025-02-30" -> Str10("2", "0", "2", "5", "-", "0", "2", "-", "3", "0")
      [] s = "2025-01-32" -> Str10("2", "0", "2", "5", "-", "0", "1", "-", "3", "2")
      [] s = "2025-01-00" -> Str10("2", "0", "2", "5", "-", "0", "1", "-", "0", "0")
      [] s = "2025-1-2" -> <<"2", "0", "2", "5", "-", "1", "-", "2">>

Digits == {"0", "1", "2", "3", "4", "5", "6", "7", "8", "9"}

DigitVal(c) ==
    CASE c = "0" -> 0 [] c = "1" -> 1 [] c = "2" -> 2 [] c = "3" -> 3
      [] c = "4" -> 4 [] c = "5" -> 5 [] c = "6" -> 6 [] c = "7" -> 7
      [] c = "8" -> 8 [] c = "9" -> 9

RECURSIVE ParseInt(_)
ParseInt(s) ==
    IF s = << >> THEN 0
    ELSE 10 * ParseInt(SubSeq(s, 1, Len(s) - 1)) + DigitVal(s[Len(s)])

(* if (x): undefined and the empty string are falsy *)
Truthy(x) == x # NONE /\ x # ""

VALID_FIELDS == <<"temperature", "humidity", "pressure">>

Includes(arr, x) == \E i \in 1..Len(arr) : arr[i] = x

----------------------------------------------------------------------------
(* ECMAScript Date *)

msPerDay == 24 * 60 * 60 * 1000

NaNDate == [nan |-> TRUE, day |-> 0, ms |-> 0]

MkDate(d, m) == [nan |-> FALSE, day |-> d, ms |-> m]

DayFromYear(y) ==
    365 * (y - 1970) + ((y - 1969) \div 4) - ((y - 1901) \div 100)
        + ((y - 1601) \div 400)

InLeapYear(y) == (y % 4 = 0 /\ y % 100 # 0) \/ y % 400 = 0

DaysInMonth(y, m) ==
    IF m = 2 THEN (IF InLeapYear(y) THEN 29 ELSE 28)
    ELSE IF m \in {4, 6, 9, 11} THEN 30 ELSE 31

RECURSIVE DaysBeforeMonth(_, _)
DaysBeforeMonth(y, m) ==
    IF m = 1 THEN 0 ELSE DaysBeforeMonth(y, m - 1) + DaysInMonth(y, m - 1)

(* MakeDay(year, month, date): a date past the end of its month rolls over *)
MakeDay(y, m, d) == DayFromYear(y) + DaysBeforeMonth(y, m) + d - 1

(* /^\d{4}-\d{2}-\d{2}$/ *)
RegexTest(str) ==
    LET s == Chars(str)
    IN  /\ Len(s) = 10
        /\ \A i \in {1, 2, 3, 4, 6, 7, 9, 10} : s[i] \in Digits
        /\ s[5] = "-"
        /\ s[8] = "-"

(* new Date(dateString) for a date-only string: midnight UTC of that day.  *)
(* Month outside 01..12 and day outside 01..31 give an invalid Date. A day *)
(* in 29..31 that the month does not have is implementation-defined        *)
(* (ECMA-262 Date.parse): V8 rolls it over into the next month, a strict   *)
(* parser gives an invalid Date.                                           *)
NewDate(str) ==
    IF ~RegexTest(str) THEN NaNDate
    ELSE LET s == Chars(str)
             y == ParseInt(SubSeq(s, 1, 4))
             m == ParseInt(SubSeq(s, 6, 7))
             d == ParseInt(SubSeq(s, 9, 10))
         IN  IF m \notin 1..12 \/ d \notin 1..31 THEN NaNDate
             ELSE IF engine = "strict" /\ d > DaysInMonth(y, m) THEN NaNDate
             ELSE MkDate(MakeDay(y, m, d), 0)

isValidDate(dateString) ==
    IF ~RegexTest(dateString) THEN FALSE
    ELSE ~NewDate(dateString).nan

AddMs(t, delta) ==
    LET total == t.ms + delta
    IN  MkDate(t.day + (total \div msPerDay), total % msPerDay)

(* LocalTime(t) = t + LocalTZA, UTC(t) = t - LocalTZA; tz is in minutes *)
LocalTZA == tz * 60 * 1000

MakeTime(h, m, s, milli) == ((h * 60 + m) * 60 + s) * 1000 + milli

(* Date.prototype.setHours: replaces the time-of-day of the LOCAL time *)
setHours(t, h, m, s, milli) ==
    LET local == AddMs(t, LocalTZA)
    IN  AddMs(MkDate(local.day, MakeTime(h, m, s, milli)), -LocalTZA)

DateLeq(a, b) == a.day < b.day \/ (a.day = b.day /\ a.ms <= b.ms)

----------------------------------------------------------------------------
(* The Measurement collection and the MongoDB primitives the handlers use *)

Obs(d, m, t, h, p) ==
    [timestamp |-> MkDate(d, m), temperature |-> t, humidity |-> h, pressure |-> p]

Jan1 == MakeDay(2025, 1, 1)

(* Observations the ingestion job may append *)
Observations ==
    { Obs(Jan1, 0, 100, 800, 10130),
      Obs(Jan1 + 1, 0, 200, 650, 10080),
      Obs(Jan1 + 2, 0, 300, 720, 9950),
      Obs(Jan1 + 1, MakeTime(21, 30, 0, 0), -25, 905, 10021),
      Obs(Jan1 + 1, MakeTime(3, 0, 0, 0), 201, 650, 10080) }

ObservationsValidate ==
    { Obs(Jan1 + 1, 0, 200, 650, 10080),
      Obs(Jan1 + 1, MakeTime(21, 30, 0, 0), -25, 905, 10021) }

NoFilter == [hasGte |-> FALSE, gte |-> NaNDate, hasLte |-> FALSE, lte |-> NaNDate]

(* { timestamp: { $gte, $lte } }; an empty query matches every document *)
Matches(doc, f) ==
    /\ f.hasGte => DateLeq(f.gte, doc.timestamp)
    /\ f.hasLte => DateLeq(doc.timestamp, f.lte)

Find(coll, f) ==
    LET hit == {d \in BagToSet(coll) : Matches(d, f)}
    IN  [d \in hit |-> CopiesIn(d, coll)]

(* Every arrangement of the documents of a bag in a sequence *)
BagSeqs(b) ==
    LET n == BagCardinality(b)
    IN  {s \in [1..n -> BagToSet(b)] :
            \A d \in BagToSet(b) : Cardinality({i \in 1..n : s[i] = d}) = CopiesIn(d, b)}

(* .sort({ timestamp: 1 }): ascending; the order of equal timestamps is not *)
(* specified                                                               *)
(* Variant: the documents come back in natural order *)
SortByTimestampUnsorted(b) == BagSeqs(b)

SortByTimestamp(b) ==
    {s \in BagSeqs(b) :
        \A i \in 1..(Len(s) - 1) : DateLeq(s[i].timestamp, s[i + 1].timestamp)}

FieldValues(b, field) ==
    LET docs == CHOOSE s \in BagSeqs(b) : TRUE
    IN  [i \in 1..Len(docs) |-> docs[i][field]]

RECURSIVE SeqSum(_)
SeqSum(s) == IF s = << >> THEN 0 ELSE s[1] + SeqSum(Tail(s))

SeqMin(s) == CHOOSE x \in {s[i] : i \in 1..Len(s)} : \A i \in 1..Len(s) : x <= s[i]

SeqMax(s) == CHOOSE x \in {s[i] : i \in 1..Len(s)} : \A i \in 1..Len(s) : x >= s[i]

(* A real number num/den (den > 0); sqrt |-> TRUE means its square root *)
Rat(n, d) == [num |-> n, den |-> d, sqrt |-> FALSE]

Sqrt(n, d) == [num |-> n, den |-> d, sqrt |-> TRUE]

(* $avg *)
Avg(values) == Rat(SeqSum(values), Len(values))

(* Variant: $stdDevSamp *)
StdDevSamp(values) ==
    LET n == Len(values)
        sum == SeqSum(values)
        sumSq == SeqSum([i \in 1..n |-> values[i] * values[i]])
    IN  IF n = 1 THEN Sqrt(0, 1) ELSE Sqrt(n * sumSq - sum * sum, n * (n - 1))

(* $stdDevPop: population standard deviation of the values, accumulated    *)
(* from their count, sum and sum of squares                                *)
StdDevPop(values) ==
    LET n == Len(values)
        sum == SeqSum(values)
        sumSq == SeqSum([i \in 1..n |-> values[i] * values[i]])
    IN  Sqrt(n * sumSq - sum * sum, n * n)

(* Measurement.aggregate([{$match}, {$group: {_id: null, ...}}]): no group *)
(* when no document matches                                                *)
Aggregate(coll, f, field, accumulator) ==
    LET b == Find(coll, f)
        values == FieldValues(b, field)
        group == [avg |-> Avg(values), min |-> SeqMin(values), max |-> SeqMax(values),
                  count |-> Len(values)]
    IN  IF BagCardinality(b) = 0 THEN << >>
        ELSE IF accumulator = "$stdDevPop"
             THEN << group @@ [stdDev |-> StdDevPop(values)] >>
             ELSE << group @@ [values |-> values] >>

----------------------------------------------------------------------------
(* Arithmetic of the metrics response *)

RECURSIVE ISqrtIn(_, _, _)
ISqrtIn(x, lo, hi) ==
    IF hi - lo <= 1 THEN lo
    ELSE LET mid == (lo + hi) \div 2
         IN  IF mid * mid <= x THEN ISqrtIn(x, mid, hi) ELSE ISqrtIn(x, lo, mid)

(* floor(sqrt(x)) for 0 <= x < 2^31 *)
ISqrt(x) == ISqrtIn(x, 0, 46341)

(* Math.round(x * 100) / 100 for x in tenths: the result in hundredths.    *)
(* Math.round rounds half up: floor(y + 1/2).                              *)
Round2(x) ==
    IF x.sqrt
    THEN (ISqrt((400 * x.num) \div x.den) + 1) \div 2
    ELSE (20 * x.num + x.den) \div (2 * x.den)

(* Variant: the sample form, divisor n - 1 *)
calculateStdDevSample(values, mean) ==
    IF Len(values) <= 1 THEN Rat(0, 1)
    ELSE LET squaredDiffs ==
                 [i \in 1..Len(values) |->
                     (values[i] * mean.den - mean.num) * (values[i] * mean.den - mean.num)]
         IN  Sqrt(SeqSum(squaredDiffs), mean.den * mean.den * (Len(values) - 1))

calculateStdDev(values, mean) ==
    IF Len(values) = 0 THEN Rat(0, 1)
    ELSE LET squaredDiffs ==
                 [i \in 1..Len(values) |->
                     (values[i] * mean.den - mean.num) * (values[i] * mean.den - mean.num)]
             avgSquaredDiff ==
                 Rat(SeqSum(squaredDiffs), mean.den * mean.den * Len(values))
         IN  Sqrt(avgSquaredDiff.num, avgSquaredDiff.den)

(* stdDev || 0 *)
OrZero(x) == IF x.num = 0 THEN Rat(0, 1) ELSE x

----------------------------------------------------------------------------
(* Responses *)

Json(status, error, message) ==
    [status |-> status, error |-> error, message |-> message,
     list |-> << >>, metrics |-> << >>]

NoResp == Json(0, "", "")

FieldList == "temperature, humidity, pressure"

InvalidField == Json(400, "Invalid field name", "Field must be one of: " \o FieldList)

MissingField ==
    Json(400, "Missing field parameter", "Field is required. Must be one of: " \o FieldList)

InvalidDate(bound) ==
    Json(400, "Invalid " \o bound \o " format", "Date must be in YYYY-MM-DD format")

NoDataFound == Json(404, "No data found", "No measurements found for the specified criteria")

----------------------------------------------------------------------------
(* The synchronous part of the handlers: validation and the date filter.   *)
(* A validation yields the 400 response, or NoResp when the request passes *)

DateValidation(start_date, end_date) ==
    IF Truthy(start_date) /\ ~isValidDate(start_date) THEN InvalidDate("start_date")
    ELSE IF Truthy(end_date) /\ ~isValidDate(end_date) THEN InvalidDate("end_date")
    ELSE NoResp

(* Variant: the upper bound replaces the filter instead of joining it *)
BuildDateFilterOverwrite(start_date, end_date) ==
    [hasGte |-> Truthy(start_date) /\ ~Truthy(end_date),
     gte |-> IF Truthy(start_date) THEN NewDate(start_date) ELSE NaNDate,
     hasLte |-> Truthy(end_date),
     lte |-> IF Truthy(end_date)
             THEN setHours(NewDate(end_date), 23, 59, 59, 999) ELSE NaNDate]

BuildDateFilter(start_date, end_date) ==
    [hasGte |-> Truthy(start_date),
     gte |-> IF Truthy(start_date) THEN NewDate(start_date) ELSE NaNDate,
     hasLte |-> Truthy(end_date),
     lte |-> IF Truthy(end_date)
             THEN setHours(NewDate(end_date), 23, 59, 59, 999) ELSE NaNDate]

MeasurementsValidation(field, start_date, end_date) ==
    IF Truthy(field) /\ ~Includes(VALID_FIELDS, field) THEN InvalidField
    ELSE DateValidation(start_date, end_date)

(* Variant: the dates are not validated before the store call *)
MetricsValidationNoDates(field, start_date, end_date) ==
    IF ~Truthy(field) THEN MissingField
    ELSE IF ~Includes(VALID_FIELDS, field) THEN InvalidField
    ELSE NoResp

(* Variant: membership is tested first, so a missing field reads as invalid *)
MetricsValidationMembershipFirst(field, start_date, end_date) ==
    IF ~Includes(VALID_FIELDS, field) THEN InvalidField
    ELSE IF ~Truthy(field) THEN MissingField
    ELSE DateValidation(start_date, end_date)

MetricsValidation(field, start_date, end_date) ==
    IF ~Truthy(field) THEN MissingField
    ELSE IF ~Includes(VALID_FIELDS, field) THEN InvalidField
    ELSE DateValidation(start_date, end_date)

(* What the handler does up to its await: respond 400, or issue the store call *)
Accept(request, rejection) ==
    /\ pc = "idle"
    /\ req' = request
    /\ logged' = ""
    /\ scanned' = EmptyBag
    /\ IF rejection.status # 0
       THEN /\ resp' = rejection
            /\ responses' = 1
            /\ storeCalls' = 0
            /\ dateFilter' = NoFilter
            /\ pc' = "done"
       ELSE /\ resp' = NoResp
            /\ responses' = 0
            /\ storeCalls' = 1
            /\ dateFilter' = BuildDateFilter(request.start_date, request.end_date)
            /\ pc' = "awaiting"
    /\ UNCHANGED <<tz, engine, store>>

Request(endpoint, server, field, start_date, end_date) ==
    [endpoint |-> endpoint, server |-> server, field |-> field,
     start_date |-> start_date, end_date |-> end_date]

Reply(r) ==
    /\ scanned' = store
    /\ resp' = r
    /\ responses' = responses + 1
    /\ pc' = "done"
    /\ UNCHANGED <<tz, engine, store, req, dateFilter, storeCalls>>

----------------------------------------------------------------------------
(* GET /api/measurements *)

GetMeasurements(field, start_date, end_date) ==
    Accept(Request("measurements", "server/index.js", field, start_date, end_date),
           MeasurementsValidation(field, start_date, end_date))

Project(m, field) == [timestamp |-> m.timestamp] @@ (field :> m[field])

(* Variant: an empty result is sent as an empty list *)
MeasurementsResponseEmptyList(measurements, field) ==
    IF Truthy(field)
    THEN [Json(200, "", "") EXCEPT
             !.list = [i \in 1..Len(measurements) |-> Project(measurements[i], field)]]
    ELSE [Json(200, "", "") EXCEPT !.list = measurements]

MeasurementsResponse(measurements, field) ==
    IF Len(measurements) = 0 THEN NoDataFound
    ELSE IF Truthy(field)
         THEN [Json(200, "", "") EXCEPT
                  !.list = [i \in 1..Len(measurements) |-> Project(measurements[i], field)]]
         ELSE [Json(200, "", "") EXCEPT !.list = measurements]

GetMeasurementsResume ==
    /\ pc = "awaiting"
    /\ req.endpoint = "measurements"
    /\ \E measurements \in SortByTimestamp(Find(store, dateFilter)) :
           Reply(MeasurementsResponse(measurements, req.field))
    /\ UNCHANGED logged

----------------------------------------------------------------------------
(* GET /api/measurements/metrics: with $stdDevPop (src/server/index.js)    *)
(* and with the pushed values reduced by calculateStdDev (the earlier      *)
(* server)                                                                 *)

GetMetrics(server, field, start_date, end_date) ==
    Accept(Request("metrics", server, field, start_date, end_date),
           MetricsValidation(field, start_date, end_date))

Metrics(field, count, avg, min, max, stdDev) ==
    [Json(200, "", "") EXCEPT
        !.metrics = << [field |-> field, count |-> count, avg |-> Round2(avg),
                        min |-> Round2(Rat(min, 1)), max |-> Round2(Rat(max, 1)),
                        stdDev |-> Round2(stdDev)] >>]

MetricsResponse(aggregationResult, field) ==
    IF Len(aggregationResult) = 0 THEN NoDataFound
    ELSE LET g == aggregationResult[1]
         IN  Metrics(field, g.count, g.avg, g.min, g.max, OrZero(g.stdDev))

MetricsResponseLocal(aggregationResult, field) ==
    IF Len(aggregationResult) = 0 THEN NoDataFound
    ELSE LET g == aggregationResult[1]
             stdDev == calculateStdDev(g.values, g.avg)
         IN  Metrics(field, g.count, g.avg, g.min, g.max, stdDev)

GetMetricsResume ==
    /\ pc = "awaiting"
    /\ req.endpoint = "metrics"
    /\ req.server = "server/index.js"
    /\ Reply(MetricsResponse(Aggregate(store, dateFilter, req.field, "$stdDevPop"), req.field))
    /\ UNCHANGED logged

GetMetricsResumeLocal ==
    /\ pc = "awaiting"
    /\ req.endpoint = "metrics"
    /\ req.server = "unnamed/part_000"
    /\ Reply(MetricsResponseLocal(Aggregate(store, dateFilter, req.field, "$push"), req.field))
    /\ UNCHANGED logged

----------------------------------------------------------------------------
(* catch (error): the store call threw or rejected *)

StoreErrors == {"MongoNetworkError: connection closed", "MongoServerSelectionError: timed out"}

InternalError(endpoint) ==
    Json(500, "Internal server error",
         IF endpoint = "measurements" THEN "An error occurred while fetching data"
         ELSE "An error occurred while calculating metrics")

(* Variant: the cause is sent to the caller *)
CatchLeaking(error) ==
    /\ pc = "awaiting"
    /\ logged' = error
    /\ resp' = Json(500, "Internal server error", error)
    /\ responses' = responses + 1
    /\ pc' = "done"
    /\ UNCHANGED <<tz, engine, store, req, dateFilter, storeCalls, scanned>>

Catch(error) ==
    /\ pc = "awaiting"
    /\ logged' = error
    /\ resp' = InternalError(req.endpoint)
    /\ responses' = responses + 1
    /\ pc' = "done"
    /\ UNCHANGED <<tz, engine, store, req, dateFilter, storeCalls, scanned>>

StoreFails == \E error \in StoreErrors : Catch(error)

----------------------------------------------------------------------------
(* GET /api/fields and the unmatched /api routes: no store call *)

Immediate(endpoint, r) ==
    /\ pc = "idle"
    /\ req' = Request(endpoint, "server/index.js", NONE, NONE, NONE)
    /\ resp' = r
    /\ responses' = 1
    /\ storeCalls' = 0
    /\ dateFilter' = NoFilter
    /\ logged' = ""
    /\ scanned' = EmptyBag
    /\ pc' = "done"
    /\ UNCHANGED <<tz, engine, store>>

GetFields == Immediate("fields", Json(200, "", ""))

ApiNotFound == Immediate("splat", Json(404, "Not found", "API endpoint not found"))

----------------------------------------------------------------------------
(* The response is sent and the request is over: the server is ready for   *)
(* the next one                                                            *)
NoRequest == Request("", "server/index.js", NONE, NONE, NONE)

EndRequest ==
    /\ pc = "done"
    /\ pc' = "idle"
    /\ req' = NoRequest
    /\ resp' = NoResp
    /\ dateFilter' = NoFilter
    /\ storeCalls' = 0
    /\ responses' = 0
    /\ logged' = ""
    /\ scanned' = EmptyBag
    /\ UNCHANGED <<tz, engine, store>>

----------------------------------------------------------------------------
(* The ingestion job: one Measurement.create per run *)

Create(candidates, max) ==
    /\ BagCardinality(store) < max
    /\ \E o \in candidates : store' = store (+) SetToBag({o})
    /\ UNCHANGED <<tz, engine, pc, req, dateFilter, resp, storeCalls, responses, logged,
                   scanned>>

fetchWeatherData == Create(Observations, MaxStore)

fetchWeatherDataValidate == Create(ObservationsValidate, MaxStoreValidate)

----------------------------------------------------------------------------
(* The inputs *)

(* Offsets of the server's time zone from UTC, in minutes *)
TimeZones == {-720, -300, 0, 300, 840}

Engines == {"v8", "strict"}

Servers == {"server/index.js", "unnamed/part_000"}

QueryFields == {NONE, "temperature", "humidity"}

QueryDates == {NONE, "2025-01-02", "2025-01-03"}

AllFields == {NONE, "", "temperature", "humidity", "pressure", "wind"}

AllDates ==
    {NONE, "", "2025-01-02", "2025-01-03", "2025-13-01", "2025-02-30",
     "2025-01-32", "2025-01-00", "2025-1-2"}

Init ==
    /\ tz \in TimeZones
    /\ engine \in Engines
    /\ store = EmptyBag
    /\ pc = "idle"
    /\ req = NoRequest
    /\ dateFilter = NoFilter
    /\ resp = NoResp
    /\ storeCalls = 0
    /\ responses = 0
    /\ logged = ""
    /\ scanned = EmptyBag

MeasurementsRequest ==
    \E f \in QueryFields, sd \in QueryDates, ed \in QueryDates : GetMeasurements(f, sd, ed)

MetricsRequest ==
    \E s \in Servers, f \in QueryFields, sd \in QueryDates, ed \in QueryDates :
        GetMetrics(s, f, sd, ed)

Next ==
    \/ fetchWeatherData
    \/ MeasurementsRequest
    \/ GetMeasurementsResume
    \/ MetricsRequest
    \/ GetMetricsResume
    \/ GetMetricsResumeLocal
    \/ StoreFails
    \/ GetFields
    \/ ApiNotFound
    \/ EndRequest

Spec == Init /\ [][Next]_vars

(* The same handlers under every shape of field and date parameter, over a *)
(* small collection                                                        *)
MeasurementsRequestValidate ==
    \E f \in AllFields, sd \in AllDates, ed \in AllDates : GetMeasurements(f, sd, ed)

MetricsRequestValidate ==
    \E s \in Servers, f \in AllFields, sd \in AllDates, ed \in AllDates :
        GetMetrics(s, f, sd, ed)

NextValidate ==
    \/ fetchWeatherDataValidate
    \/ MeasurementsRequestValidate
    \/ GetMeasurementsResume
    \/ MetricsRequestValidate
    \/ GetMetricsResume
    \/ GetMetricsResumeLocal
    \/ StoreFails
    \/ GetFields
    \/ ApiNotFound
    \/ EndRequest

SpecValidate == Init /\ [][NextValidate]_vars

----------------------------------------------------------------------------
(* Vocabulary of the properties *)

OnQuery == pc # "idle" /\ req.endpoint \in {"measurements", "metrics"}

Answered == pc = "done" /\ req.endpoint \in {"measurements", "metrics"}

FieldNames == {"temperature", "humidity", "pressure"}

(* The field parameter is not acceptable to the endpoint *)
BadField ==
    IF req.endpoint = "metrics" THEN req.field \notin FieldNames
    ELSE req.field \notin FieldNames \cup {NONE, ""}

Present(x) == x \notin {NONE, ""}

(* A date parameter the validator turns down *)
Malformed(x) == Present(x) /\ ~isValidDate(x)

(* YYYY-MM-DD naming a day of the calendar *)
CalendarDate(x) ==
    LET s == Chars(x)
    IN  /\ Len(s) = 10
        /\ \A i \in 1..10 : IF i \in {5, 8} THEN s[i] = "-" ELSE s[i] \in Digits
        /\ LET y == 1000 * DigitVal(s[1]) + 100 * DigitVal(s[2]) + 10 * DigitVal(s[3])
                        + DigitVal(s[4])
               m == 10 * DigitVal(s[6]) + DigitVal(s[7])
               d == 10 * DigitVal(s[9]) + DigitVal(s[10])
               leap == (y % 4 = 0 /\ y % 100 # 0) \/ y % 400 = 0
               last == CASE m \in {1, 3, 5, 7, 8, 10, 12} -> 31
                         [] m \in {4, 6, 9, 11} -> 30
                         [] m = 2 -> IF leap THEN 29 ELSE 28
                         [] OTHER -> 0
           IN  d \in 1..last

----------------------------------------------------------------------------
(* C1: a request to the list or the metrics endpoint whose parameters fail *)
(* validation (field outside the valid set, field missing on metrics, a    *)
(* date the validator turns down) is answered 400 without any store call;  *)
(* a store call is issued only for a request whose field, start_date and   *)
(* end_date all passed validation.                                         *)
C1_ValidationBeforeStore ==
    OnQuery =>
        LET failing == BadField \/ Malformed(req.start_date) \/ Malformed(req.end_date)
        IN  /\ failing => (pc = "done" /\ resp.status = 400 /\ storeCalls = 0
                            /\ scanned = EmptyBag)
            /\ storeCalls > 0 => ~failing
            /\ resp.status = 400 => failing

C1_Witness ==
    /\ Answered
    /\ req.endpoint = "metrics"
    /\ req.field = "humidity"
    /\ req.start_date = "2025-01-02"
    /\ req.end_date = "2025-13-01"
    /\ resp.status = 400
    /\ storeCalls = 0
    /\ BagCardinality(store) > 0

(* C5: on the metrics endpoint a request without field (absent or empty)   *)
(* is answered 400 "Missing field parameter" and a request with a field    *)
(* outside the valid set 400 "Invalid field name", whatever its date       *)
(* parameters are; on the list endpoint an absent field is accepted.       *)
C5_MissingVersusInvalidField ==
    /\ (OnQuery /\ req.endpoint = "metrics" /\ ~Present(req.field)) =>
            resp = MissingField
    /\ (OnQuery /\ req.endpoint = "metrics" /\ Present(req.field)
            /\ req.field \notin FieldNames) =>
            (resp = InvalidField /\ resp # MissingField)
    /\ (OnQuery /\ req.endpoint = "metrics" /\ req.field \in FieldNames) =>
            resp.error \notin {"Missing field parameter", "Invalid field name"}
    /\ (OnQuery /\ req.endpoint = "measurements" /\ ~Present(req.field)) =>
            /\ resp.error \notin {"Missing field parameter", "Invalid field name"}
            /\ (~Malformed(req.start_date) /\ ~Malformed(req.end_date)) => storeCalls = 1
            /\ resp.status = 200 =>
                   \A i \in 1..Len(resp.list) :
                       DOMAIN resp.list[i]
                           = {"timestamp", "temperature", "humidity", "pressure"}

C5_Witness ==
    /\ Answered
    /\ req.endpoint = "metrics"
    /\ req.field = NONE
    /\ req.start_date = "2025-13-01"
    /\ resp = MissingField

(* C3: a present start_date or end_date is accepted only if it has the     *)
(* shape YYYY-MM-DD and names a day of the calendar; any other value is    *)
(* answered 400 with the error label naming the bound that failed.         *)
C3_OnlyCalendarDatesAccepted ==
    (OnQuery /\ ~BadField) =>
        LET badStart == Present(req.start_date) /\ ~CalendarDate(req.start_date)
            badEnd == Present(req.end_date) /\ ~CalendarDate(req.end_date)
        IN  /\ badStart => (resp.status = 400 /\ resp.error = "Invalid start_date format")
            /\ (~badStart /\ badEnd) =>
                   (resp.status = 400 /\ resp.error = "Invalid end_date format")
            /\ storeCalls > 0 => (~badStart /\ ~badEnd)

----------------------------------------------------------------------------
(* The calendar day (days since 1970-01-01) a YYYY-MM-DD parameter names *)
DayOf(x) ==
    LET s == Chars(x)
        y == 1000 * DigitVal(s[1]) + 100 * DigitVal(s[2]) + 10 * DigitVal(s[3])
                 + DigitVal(s[4])
        m == 10 * DigitVal(s[6]) + DigitVal(s[7])
        d == 10 * DigitVal(s[9]) + DigitVal(s[10])
        \* days from 1970-01-01 to y-m-d, by the civil-calendar formula
        yy == IF m <= 2 THEN y - 1 ELSE y
        era == yy \div 400
        yoe == yy - era * 400
        mp == (m + 9) % 12
        doy == (153 * mp + 2) \div 5 + d - 1
        doe == yoe * 365 + yoe \div 4 - yoe \div 100 + doy
    IN  era * 146097 + doe - 719468

DatesOk ==
    /\ Present(req.start_date) => CalendarDate(req.start_date)
    /\ Present(req.end_date) => CalendarDate(req.end_date)

(* Instants the range predicate is probed at: the first and the last       *)
(* millisecond, and times in between, of the days around the queried ones  *)
ProbeInstants ==
    {MkDate(d, m) : d \in (Jan1 - 1)..(Jan1 + 4),
                    m \in {0, MakeTime(4, 59, 59, 999), MakeTime(5, 0, 0, 0),
                           MakeTime(12, 0, 0, 0), MakeTime(21, 30, 0, 0),
                           MakeTime(23, 59, 59, 999)}}

(* C2: start_date S is normalized to the first instant of day S and        *)
(* end_date D to the last instant of day D: the range predicate matches    *)
(* exactly the timestamps from the start of S to the end of D, for every   *)
(* time-zone offset of the server.                                         *)
C2_WholeDayRange ==
    (pc = "awaiting" /\ DatesOk) =>
        \A t \in ProbeInstants :
            Matches([timestamp |-> t], dateFilter) <=>
                /\ Present(req.start_date) => DayOf(req.start_date) <= t.day
                /\ Present(req.end_date) => t.day <= DayOf(req.end_date)

(* C4: with two calendar dates start_date > end_date, whatever the         *)
(* collection holds and whatever the time-zone offset, the normalized end  *)
(* instant is strictly before the start instant and a request the store    *)
(* answered ends with 404 NoDataFound, never 400, 500 or 200.              *)
C4_ReversedRangeIsNoData ==
    (OnQuery /\ ~BadField
        /\ Present(req.start_date) /\ CalendarDate(req.start_date)
        /\ Present(req.end_date) /\ CalendarDate(req.end_date)
        /\ DayOf(req.start_date) > DayOf(req.end_date)) =>
        /\ resp.status # 400
        /\ pc = "awaiting" =>
               /\ dateFilter.hasGte /\ dateFilter.hasLte
               /\ DateLeq(dateFilter.lte, dateFilter.gte)
               /\ dateFilter.lte # dateFilter.gte
        /\ (pc = "done" /\ logged = "") => resp = NoDataFound

C4_Witness ==
    /\ Answered
    /\ req.endpoint = "metrics"
    /\ req.field = "temperature"
    /\ req.start_date = "2025-01-03"
    /\ req.end_date = "2025-01-02"
    /\ tz = 840
    /\ BagCardinality(scanned) = 3
    /\ \E d \in BagToSet(scanned) : d.timestamp = MkDate(Jan1 + 2, 0)
    /\ \E d \in BagToSet(scanned) : d.timestamp = MkDate(Jan1 + 1, MakeTime(21, 30, 0, 0))
    /\ resp = NoDataFound

----------------------------------------------------------------------------
(* The documents of the scanned collection the range predicate matches *)
Matched == {d \in BagToSet(scanned) : Matches(d, dateFilter)}

MatchedCount == BagCardinality([d \in Matched |-> CopiesIn(d, scanned)])

(* C6: when the parameters passed validation and the store call returned   *)
(* without a matching document (the empty collection included), the        *)
(* response is 404 NoDataFound with its fixed message; a 200 list is never *)
(* empty and 200 metrics never have count 0.                               *)
C6_NoDataFound ==
    (Answered /\ storeCalls = 1 /\ logged = "") =>
        /\ Matched = {} =>
               /\ resp.status = 404
               /\ resp.error = "No data found"
               /\ resp.message = "No measurements found for the specified criteria"
               /\ resp.list = << >>
               /\ resp.metrics = << >>
        /\ (resp.status = 200 /\ req.endpoint = "measurements") => Len(resp.list) > 0
        /\ (resp.status = 200 /\ req.endpoint = "metrics") =>
               (Len(resp.metrics) = 1 /\ resp.metrics[1].count > 0)

C6_Witness ==
    /\ Answered
    /\ req.endpoint = "measurements"
    /\ req.start_date = "2025-01-03"
    /\ req.end_date = NONE
    /\ BagCardinality(scanned) = 2
    /\ Matched = {}
    /\ resp = NoDataFound

(* C9: a 200 response of the list endpoint, with a valid field or without  *)
(* field, holds exactly the documents the range predicate matches, in      *)
(* non-decreasing order of timestamp; the single-field projection          *)
(* {timestamp, field} keeps the order and the number of documents.         *)
C9_ListSortedAndComplete ==
    (Answered /\ req.endpoint = "measurements" /\ resp.status = 200) =>
        /\ Len(resp.list) = MatchedCount
        /\ \A i \in 1..(Len(resp.list) - 1) :
               DateLeq(resp.list[i].timestamp, resp.list[i + 1].timestamp)
        /\ \E s \in BagSeqs([d \in Matched |-> CopiesIn(d, scanned)]) :
               \A i \in 1..Len(s) :
                   IF Present(req.field)
                   THEN /\ DOMAIN resp.list[i] = {"timestamp", req.field}
                        /\ resp.list[i].timestamp = s[i].timestamp
                        /\ resp.list[i][req.field] = s[i][req.field]
                   ELSE resp.list[i] = s[i]

C9_Witness ==
    /\ Answered
    /\ req.endpoint = "measurements"
    /\ req.field = "humidity"
    /\ req.start_date = "2025-01-02"
    /\ req.end_date = "2025-01-02"
    /\ resp.status = 200
    /\ BagCardinality(scanned) = 3
    /\ Len(resp.list) = 2
    /\ resp.list[1].timestamp # resp.list[2].timestamp

----------------------------------------------------------------------------
RECURSIVE SumOver(_, _)
SumOver(S, w) ==
    IF S = {} THEN 0
    ELSE LET d == CHOOSE x \in S : TRUE IN w[d] + SumOver(S \ {d}, w)

(* a is num/den rounded to the nearest integer, halves upwards (den > 0) *)
IsRounded(a, num, den) == 2 * den * a - den <= 2 * num /\ 2 * num < 2 * den * a + den

(* k is sqrt(num/den) rounded to the nearest integer (num >= 0, den > 0) *)
IsRoundedRoot(k, num, den) ==
    /\ k >= 0
    /\ k = 0 \/ (2 * k - 1) * (2 * k - 1) * den <= 4 * num
    /\ 4 * num < (2 * k + 1) * (2 * k + 1) * den

(* C7: for the non-empty multiset v_1..v_n of the field's values the range *)
(* predicate matches, a 200 metrics response of either server has          *)
(* count = n, avg = (sum v_i)/n, min, max and the population standard      *)
(* deviation sqrt(sum((v_i - avg)^2)/n), each but count rounded to two     *)
(* decimals (values in tenths, results in hundredths).                     *)
C7_MetricsValues ==
    (Answered /\ req.endpoint = "metrics" /\ resp.status = 200) =>
        LET f == req.field
            n == MatchedCount
            sum == SumOver(Matched, [d \in Matched |-> CopiesIn(d, scanned) * d[f]])
            \* sum((v_i - avg)^2) = dev / n^2
            dev == SumOver(Matched,
                       [d \in Matched |->
                           CopiesIn(d, scanned) * (n * d[f] - sum) * (n * d[f] - sum)])
            m == resp.metrics[1]
        IN  /\ n > 0
            /\ m.field = f
            /\ m.count = n
            /\ IsRounded(m.avg, 10 * sum, n)
            /\ \E d \in Matched : m.min = 10 * d[f]
            /\ \A d \in Matched : m.min <= 10 * d[f]
            /\ \E d \in Matched : m.max = 10 * d[f]
            /\ \A d \in Matched : m.max >= 10 * d[f]
            /\ IsRoundedRoot(m.stdDev, 100 * dev, n * n * n)
            /\ n = 1 => m.stdDev = 0

(* values 10, 20, 30 give count 3, avg 20, min 10, max 30, stdDev 8.16 *)
C7_Witness ==
    /\ Answered
    /\ req.endpoint = "metrics"
    /\ req.server = "unnamed/part_000"
    /\ req.field = "temperature"
    /\ resp.status = 200
    /\ {d.temperature : d \in Matched} = {100, 200, 300}
    /\ MatchedCount = 3
    /\ resp.metrics[1] = [field |-> "temperature", count |-> 3, avg |-> 2000,
                           min |-> 1000, max |-> 3000, stdDev |-> 816]

(* C8: the two metrics strategies agree: the response one server sent is   *)
(* the response the other server's handler computes from the same          *)
(* collection, field and range predicate (same status, and on 200 the same *)
(* field, count, avg, min, max and stdDev).                                *)
C8_StrategiesAgree ==
    (Answered /\ req.endpoint = "metrics" /\ storeCalls = 1 /\ logged = "") =>
        IF req.server = "server/index.js"
        THEN resp = MetricsResponseLocal(
                        Aggregate(scanned, dateFilter, req.field, "$push"), req.field)
        ELSE resp = MetricsResponse(
                        Aggregate(scanned, dateFilter, req.field, "$stdDevPop"), req.field)

C8_Witness ==
    /\ Answered
    /\ req.endpoint = "metrics"
    /\ req.server = "server/index.js"
    /\ req.field = "humidity"
    /\ resp.status = 200
    /\ resp.metrics[1].count = 3
    /\ resp.metrics[1].stdDev > 0
    /\ resp.metrics[1].min < resp.metrics[1].max

(* C10: a request whose store call failed ends with exactly one response,  *)
(* 500 "Internal server error" with a fixed message that holds nothing of  *)
(* the cause, after a single store call; every request ends with exactly   *)
(* one response, whose status is 200, 400, 404 or 500.                     *)
C10_OneResponse ==
    /\ responses <= 1
    /\ storeCalls <= 1
    /\ pc = "awaiting" => (responses = 0 /\ storeCalls = 1)
    /\ pc = "done" => (responses = 1 /\ resp.status \in {200, 400, 404, 500})
    /\ (pc = "done" /\ logged # "") =>
           /\ resp.status = 500
           /\ resp.error = "Internal server error"
           /\ resp.message \in {"An error occurred while fetching data",
                                  "An error occurred while calculating metrics"}
           /\ resp.message # logged
           /\ resp.list = << >>
           /\ resp.metrics = << >>
           /\ storeCalls = 1
    /\ (pc = "done" /\ resp.status = 500) => logged # ""

C10_Witness ==
    /\ pc = "done"
    /\ req.endpoint = "metrics"
    /\ logged = "MongoNetworkError: connection closed"
    /\ BagCardinality(store) > 0
    /\ resp.status = 500
    /\ responses = 1

====
